---- MODULE Spec2Model ----
(***************************************************************************)
(* A model of the roboat endpoint functions of src/src/users/mod.rs and    *)
(* src/src/friends/mod.rs: callers sharing one Client (the session) issue  *)
(* endpoint calls; every call looks up the cookie, sends one request,      *)
(* suspends at `.send().await`, and on the reply validates, decodes, maps  *)
(* and returns.  The helpers of the Client that live outside these files   *)
(* (cookie_string, validate_request_result, parse_to_raw,                  *)
(* set_user_information, and the friends request_types) follow the         *)
(* written specification of the library.                                   *)
(*                                                                         *)
(* Option<T> is written as a set: {} is None and {x} is Some(x).           *)
(***************************************************************************)
EXTENDS Integers, Sequences, FiniteSets, TLC

VARIABLES
    roblosecurity,      \* the session's token: {} or {token}
    user_information,   \* the session's identity cache: {} or {triple}
    pc,                 \* per caller: "idle", "awaiting", "responded", "decoded", "cached", "returned"
    call,               \* per caller: the endpoint called and its arguments
    sent,               \* per caller: the requests the current call handed to the transport
    reply,              \* per caller: what `.send().await` produced for the current call: {} or {request_result}
    decoded,            \* per caller: the local `user_information` of user_information_internal: {} or {triple}
    result,             \* per caller: the value the call returned: {} or {Result}
    wrote,              \* per caller: what the current call has written to the identity cache
    last_write          \* history: the latest write of the identity cache: {} or {[by, value]}

vars == <<roblosecurity, user_information, pc, call, sent, reply, decoded, result, wrote, last_write>>

----------------------------------------------------------------------------
(* Bounds of the model. *)

NumCallers == 2
MaxData == 2
MaxPresences == 2

Callers == 1..NumCallers

(* The page size friend_requests asks for. *)
FRIEND_REQUESTS_LIMIT == 10

Tokens == {"T"}
Cursors == {"c1", "c2"}
UserIds == {1, 2}
Keywords == {"k"}
Names == {"a", "b"}

(* HTTP statuses the remote service answers with. *)
Statuses == {200, 401, 403, 429, 500}

RequiresAuth == {"friend_requests", "pending_friend_requests", "user_information_internal"}
OptionalAuth == {"friends_list", "user_search", "user_presence"}

----------------------------------------------------------------------------
(* Results and errors. *)

Ok(v) == [ok |-> TRUE, value |-> v]
Err(e) == [ok |-> FALSE, err |-> e]

MissingAuthentication == "MissingAuthentication"
NetworkFailure == "NetworkFailure"
AuthenticationRejected == "AuthenticationRejected"
RateLimited == "RateLimited"
UnexpectedStatus == "UnexpectedStatus"
DecodeFailure == "DecodeFailure"

----------------------------------------------------------------------------
(* JSON on the wire: a field of an object is absent, null, or carries a    *)
(* value; a body is malformed or an object.                                *)

Absent == <<"absent">>
Null == <<"null">>
Val(v) == <<"val", v>>
HasValue(f) == Len(f) = 2
WireField(S) == {Absent, Null} \cup {Val(v) : v \in S}

Malformed == [malformed |-> TRUE]

(* serde: an Option<T> field is None when the key is missing or null. *)
decode_option(f) == IF HasValue(f) THEN {f[2]} ELSE {}

(* serde: a field of type T must be present and not null. *)
decode_required(f) == f[2]

SeqsUpTo(S, n) == UNION {[1..k -> S] : k \in 0..n}

----------------------------------------------------------------------------
(* Session helpers of the Client. *)

(* The token as a cookie header value, or the missing-authentication error. *)
cookie_string ==
    IF roblosecurity = {} THEN Err(MissingAuthentication)
    ELSE Ok(CHOOSE t \in roblosecurity : TRUE)

(* `x.unwrap_or(d)` on a Result. *)
unwrap_or(r, d) == IF r.ok THEN r.value ELSE d

(* HeaderValue::from_static(""). *)
EmptyHeaderValue == ""

(* What `.send().await` yields: a transport error or a response. *)
TransportError == [kind |-> "error"]
Response(status, body) == [kind |-> "response", status |-> status, body |-> body]

(* Classifies the outcome of the transport step. *)
validate_request_result(request_result) ==
    IF request_result.kind = "error" THEN Err(NetworkFailure)
    ELSE IF request_result.status \in 200..299 THEN Ok(request_result)
    ELSE IF request_result.status \in {401, 403} THEN Err(AuthenticationRejected)
    ELSE IF request_result.status = 429 THEN Err(RateLimited)
    ELSE Err(UnexpectedStatus)

----------------------------------------------------------------------------
(* Schemas (serde derive): a required field missing or null fails the      *)
(* whole decode; an Option field missing or null decodes to None.          *)

AllHaveValue(obj, keys) == \A k \in keys : HasValue(obj[k])

AllOk(rs) == \A i \in 1..Len(rs) : rs[i].ok
Values(rs) == [i \in 1..Len(rs) |-> rs[i].value]

(* Vec<T>, given the decoding of each element: every element must decode. *)
decode_vec(rs) == IF AllOk(rs) THEN Ok(Values(rs)) ELSE Err(DecodeFailure)

decode_ClientUserInformation(body) ==
    IF body.malformed \/ ~AllHaveValue(body, {"id", "name", "displayName"})
    THEN Err(DecodeFailure)
    ELSE Ok([user_id |-> decode_required(body.id),
             username |-> decode_required(body.name),
             display_name |-> decode_required(body.displayName)])

decode_UserDetails(body) ==
    IF body.malformed
       \/ ~AllHaveValue(body, {"name", "displayName", "id", "description",
                               "created", "isBanned", "hasVerifiedBadge"})
    THEN Err(DecodeFailure)
    ELSE Ok([username |-> decode_required(body.name),
             display_name |-> decode_required(body.displayName),
             id |-> decode_required(body.id),
             description |-> decode_required(body.description),
             created_at |-> decode_required(body.created),
             is_terminated |-> decode_required(body.isBanned),
             has_verified_badge |-> decode_required(body.hasVerifiedBadge)])

decode_UserSearchUserInformationRaw(e) ==
    IF ~AllHaveValue(e, {"id", "name", "hasVerifiedBadge", "previousUsernames", "displayName"})
    THEN Err(DecodeFailure)
    ELSE Ok([id |-> decode_required(e.id),
             name |-> decode_required(e.name),
             has_verified_badge |-> decode_required(e.hasVerifiedBadge),
             previous_usernames |-> decode_required(e.previousUsernames),
             display_name |-> decode_required(e.displayName)])

decode_UserSearchResponse(body) ==
    IF body.malformed \/ ~HasValue(body.nextPageCursor) THEN Err(DecodeFailure)
    ELSE LET data == decode_vec([i \in 1..Len(body.data) |-> decode_UserSearchUserInformationRaw(body.data[i])])
         IN IF ~data.ok THEN Err(DecodeFailure)
            ELSE Ok([previous_page_cursor |-> decode_option(body.previousPageCursor),
                     next_page_cursor |-> decode_required(body.nextPageCursor),
                     data |-> data.value])

decode_UsernameUserInformationRaw(e) ==
    IF ~AllHaveValue(e, {"requestedUsername", "hasVerifiedBadge", "id", "name", "displayName"})
    THEN Err(DecodeFailure)
    ELSE Ok([requested_username |-> decode_required(e.requestedUsername),
             has_verified_badge |-> decode_required(e.hasVerifiedBadge),
             id |-> decode_required(e.id),
             name |-> decode_required(e.name),
             display_name |-> decode_required(e.displayName)])

decode_UsernameUserDetailsResponse(body) ==
    IF body.malformed THEN Err(DecodeFailure)
    ELSE LET data == decode_vec([i \in 1..Len(body.data) |-> decode_UsernameUserInformationRaw(body.data[i])])
         IN IF ~data.ok THEN Err(DecodeFailure) ELSE Ok([data |-> data.value])

(* UserPresenceRaw with place_id declared u64 and #[serde(default)]: an    *)
(* absent place id decodes to 0.                                           *)
decode_UserPresenceRaw_default_place_id(e) ==
    IF ~AllHaveValue(e, {"userPresenceType", "lastOnline"}) THEN Err(DecodeFailure)
    ELSE Ok([user_presence_type |-> decode_required(e.userPresenceType),
             last_location |-> decode_option(e.lastLocation),
             place_id |-> IF HasValue(e.placeId) THEN {e.placeId[2]} ELSE {0},
             root_place_id |-> decode_option(e.rootPlaceId),
             game_id |-> decode_option(e.gameId),
             universe_id |-> decode_option(e.universeId),
             user_id |-> decode_option(e.userId),
             last_online |-> decode_required(e.lastOnline),
             invisible_mod_expiry |-> decode_option(e.invisibleModExpiry)])

decode_UserPresenceRaw(e) ==
    IF ~AllHaveValue(e, {"userPresenceType", "lastOnline"}) THEN Err(DecodeFailure)
    ELSE Ok([user_presence_type |-> decode_required(e.userPresenceType),
             last_location |-> decode_option(e.lastLocation),
             place_id |-> decode_option(e.placeId),
             root_place_id |-> decode_option(e.rootPlaceId),
             game_id |-> decode_option(e.gameId),
             universe_id |-> decode_option(e.universeId),
             user_id |-> decode_option(e.userId),
             last_online |-> decode_required(e.lastOnline),
             invisible_mod_expiry |-> decode_option(e.invisibleModExpiry)])

decode_UserPresenceResponse(body) ==
    IF body.malformed THEN Err(DecodeFailure)
    ELSE LET ps == decode_vec([i \in 1..Len(body.userPresences) |-> decode_UserPresenceRaw(body.userPresences[i])])
         IN IF ~ps.ok THEN Err(DecodeFailure) ELSE Ok([user_presences |-> ps.value])

(* The identity triple, the online flag and the presence type of a friend; *)
(* the remaining fields of the struct decode the same way.                 *)
decode_FriendsUserInformation(e) ==
    IF ~AllHaveValue(e, {"id", "name", "displayName", "isOnline"}) THEN Err(DecodeFailure)
    ELSE Ok([user_id |-> decode_required(e.id),
             username |-> decode_required(e.name),
             display_name |-> decode_required(e.displayName),
             is_online |-> decode_required(e.isOnline),
             presence_type |-> decode_option(e.presenceType)])

decode_FriendsListResponse(body) ==
    IF body.malformed THEN Err(DecodeFailure)
    ELSE LET data == decode_vec([i \in 1..Len(body.data) |-> decode_FriendsUserInformation(body.data[i])])
         IN IF ~data.ok THEN Err(DecodeFailure) ELSE Ok([data |-> data.value])

(* The identity triple and the description of the sender of a request. *)
decode_FriendRequestUserInformation(e) ==
    IF ~AllHaveValue(e, {"id", "name", "displayName"}) THEN Err(DecodeFailure)
    ELSE Ok([user_id |-> decode_required(e.id),
             username |-> decode_required(e.name),
             display_name |-> decode_required(e.displayName),
             description |-> decode_option(e.description)])

decode_FriendRequestsResponse(body) ==
    IF body.malformed THEN Err(DecodeFailure)
    ELSE LET data == decode_vec([i \in 1..Len(body.data) |-> decode_FriendRequestUserInformation(body.data[i])])
         IN IF ~data.ok THEN Err(DecodeFailure)
            ELSE Ok([data |-> data.value,
                     next_page_cursor |-> decode_option(body.nextPageCursor)])

decode_PendingFriendRequestsResponse(body) ==
    IF body.malformed \/ ~HasValue(body.count) THEN Err(DecodeFailure)
    ELSE Ok([count |-> decode_required(body.count)])

(* parse_to_raw::<T>: deserializes the body of a validated response into  *)
(* the schema T.                                                           *)
parse_to_raw(T, response) ==
    CASE T = "ClientUserInformation" -> decode_ClientUserInformation(response.body)
      [] T = "UserDetails" -> decode_UserDetails(response.body)
      [] T = "UserSearchResponse" -> decode_UserSearchResponse(response.body)
      [] T = "UsernameUserDetailsResponse" -> decode_UsernameUserDetailsResponse(response.body)
      [] T = "UserPresenceResponse" -> decode_UserPresenceResponse(response.body)
      [] T = "FriendsListResponse" -> decode_FriendsListResponse(response.body)
      [] T = "FriendRequestsResponse" -> decode_FriendRequestsResponse(response.body)
      [] T = "PendingFriendRequestsResponse" ->
            decode_PendingFriendRequestsResponse(response.body)

----------------------------------------------------------------------------
(* The remote service: what it can answer to each endpoint. *)

(* The accounts the service knows. *)
Users == {[user_id |-> 1, username |-> "a", display_name |-> "A"],
          [user_id |-> 2, username |-> "b", display_name |-> "B"]}

(* What the service may answer about the account of the session's token:   *)
(* the account keeps its id; its names can change between two requests.    *)
Identities == {[user_id |-> 1, username |-> "a", display_name |-> "A"],
               [user_id |-> 1, username |-> "b", display_name |-> "B"]}

(* #[derive(Default)] of ClientUserInformation. *)
DefaultClientUserInformation == [user_id |-> 0, username |-> "", display_name |-> ""]

IdentityBody(i) == [malformed |-> FALSE, id |-> Val(i.user_id), name |-> Val(i.username),
                    displayName |-> Val(i.display_name)]

IdentityBodies ==
    {IdentityBody(i) : i \in Identities}
    \cup {[IdentityBody(i) EXCEPT !.displayName = Absent] : i \in {CHOOSE j \in Identities : TRUE}}

SearchEntry(i) == [id |-> Val(i.user_id), name |-> Val(i.username),
                   displayName |-> Val(i.display_name),
                   hasVerifiedBadge |-> Val(FALSE), previousUsernames |-> Val(<<>>)]

(* An entry of the documented shape, and one lacking a required field. *)
SearchEntries == {SearchEntry(i) : i \in Users}
BrokenSearchEntries ==
    {[SearchEntry(i) EXCEPT !.hasVerifiedBadge = Absent] : i \in {CHOOSE j \in Users : TRUE}}

SearchBody(prev, next, data) ==
    [malformed |-> FALSE, previousPageCursor |-> prev, nextPageCursor |-> next, data |-> data]

(* The whole range of user-search bodies. *)
SearchBodiesWire ==
    {SearchBody(prev, next, data) :
        prev \in WireField({"c1"}), next \in WireField({"c2"}),
        data \in SeqsUpTo(SearchEntries \cup BrokenSearchEntries, MaxData)}

(* A few of them. *)
SearchBodies ==
    {SearchBody(Null, next, data) :
        next \in {Null, Val("c2")},
        data \in {<<>>, <<SearchEntry(CHOOSE j \in Users : TRUE)>>}}

PresenceEntriesWire ==
    [userPresenceType : {Absent, Val(2)},
     lastLocation : WireField({"Website"}),
     placeId : WireField({7}),
     rootPlaceId : WireField({8}),
     gameId : WireField({"g"}),
     universeId : WireField({9}),
     userId : {Val(1)},
     lastOnline : {Val("2023")},
     invisibleModExpiry : WireField({"2024"})]

OfflinePresenceEntry ==
    [userPresenceType |-> Val(0), lastLocation |-> Val("Offline"), placeId |-> Null,
     rootPlaceId |-> Null, gameId |-> Null, universeId |-> Absent, userId |-> Val(1),
     lastOnline |-> Val("2023"), invisibleModExpiry |-> Absent]

InGamePresenceEntry ==
    [userPresenceType |-> Val(2), lastLocation |-> Val("Game"), placeId |-> Val(7),
     rootPlaceId |-> Val(8), gameId |-> Val("g"), universeId |-> Val(9), userId |-> Val(2),
     lastOnline |-> Val("2023"), invisibleModExpiry |-> Null]

PresenceBody(ps) == [malformed |-> FALSE, userPresences |-> ps]

(* The whole range of presence bodies: any single entry, and lists of the  *)
(* two sample entries.                                                     *)
PresenceBodiesWire ==
    {PresenceBody(<<e>>) : e \in PresenceEntriesWire}
    \cup {PresenceBody(ps) :
            ps \in SeqsUpTo({OfflinePresenceEntry, InGamePresenceEntry}, MaxPresences)}

(* A few of them. *)
PresenceBodies == {PresenceBody(<<>>), PresenceBody(<<OfflinePresenceEntry>>)}

FriendEntry(i, presence) ==
    [id |-> Val(i.user_id), name |-> Val(i.username), displayName |-> Val(i.display_name),
     isOnline |-> Val(HasValue(presence)), presenceType |-> presence]

FriendsListBodies ==
    {[malformed |-> FALSE, data |-> <<>>]}
    \cup {[malformed |-> FALSE, data |-> <<FriendEntry(i, presence)>>] :
            i \in {CHOOSE j \in Users : TRUE}, presence \in {Null, Val(1)}}

FriendRequestEntry(i) ==
    [id |-> Val(i.user_id), name |-> Val(i.username), displayName |-> Val(i.display_name),
     description |-> Null]

FriendRequestsBodies ==
    {[malformed |-> FALSE, data |-> data, nextPageCursor |-> next] :
        data \in {<<>>, <<FriendRequestEntry(CHOOSE j \in Users : TRUE)>>},
        next \in {Null} \cup {Val(c) : c \in Cursors}}

PendingFriendRequestsBodies ==
    {[malformed |-> FALSE, count |-> c] : c \in {Absent, Val(0), Val(3)}}

UserDetailsBody(i) ==
    [malformed |-> FALSE, name |-> Val(i.username), displayName |-> Val(i.display_name),
     id |-> Val(i.user_id), description |-> Val("d"), created |-> Val("2006"),
     isBanned |-> Val(FALSE), hasVerifiedBadge |-> Val(TRUE)]

UserDetailsBodies ==
    {UserDetailsBody(i) : i \in Users}
    \cup {[UserDetailsBody(i) EXCEPT !.created = Null] : i \in {CHOOSE j \in Users : TRUE}}

UsernameEntry(i) ==
    [requestedUsername |-> Val(i.username), hasVerifiedBadge |-> Val(FALSE),
     id |-> Val(i.user_id), name |-> Val(i.username), displayName |-> Val(i.display_name)]

UsernameUserDetailsBodies ==
    {[malformed |-> FALSE, data |-> data] :
        data \in {<<>>, <<UsernameEntry(CHOOSE j \in Users : TRUE)>>}}

Bodies(api) ==
    CASE api = "friends_list" -> FriendsListBodies
      [] api = "friend_requests" -> FriendRequestsBodies
      [] api = "pending_friend_requests" -> PendingFriendRequestsBodies
      [] api = "user_information_internal" -> IdentityBodies
      [] api = "user_search" -> SearchBodies
      [] api = "user_presence" -> PresenceBodies
      [] api = "user_details" -> UserDetailsBodies
      [] api = "username_user_details" -> UsernameUserDetailsBodies

BodiesWire(api) ==
    CASE api = "user_search" -> SearchBodiesWire
      [] api = "user_presence" -> PresenceBodiesWire
      [] OTHER -> Bodies(api)

(* Every outcome of one `.send().await`: the transport fails, the service  *)
(* answers a non-2xx status, or it answers 200 with one of `bodies`.       *)
Replies(bodies) ==
    {TransportError}
    \cup {Response(s, Malformed) : s \in Statuses \ {200}}
    \cup {Response(200, b) : b \in bodies \cup {Malformed}}

----------------------------------------------------------------------------
(* Requests. *)

FRIENDS_LIST == "https://friends.roblox.com/v1/users/{user_id}/friends"
FRIEND_REQUESTS == "https://friends.roblox.com/v1/my/friends/requests"
PENDING_FRIEND_REQUESTS == "https://friends.roblox.com/v1/user/friend-requests/count"
AUTHENTICATED_USER_DETAILS_API == "https://users.roblox.com/v1/users/authenticated"
USERS_SEARCH_API == "https://users.roblox.com/v1/users/search"
USER_DETAILS_API == "https://users.roblox.com/v1/users/{user_id}"
USER_FROM_USERNAME_API == "https://users.roblox.com/v1/usernames/users"
PRESENCE_USERS_API == "https://presence.roblox.com/v1/presence/users"

(* A request with no Cookie header, no path or query parameter and no body. *)
RequestBuilder(method, url) ==
    [method |-> method, url |-> url, cookie |-> {}, user_id |-> {}, keyword |-> {},
     limit |-> {}, cursor |-> {}, json |-> {}]

----------------------------------------------------------------------------
(* The state after ClientBuilder::build: the token is set or not, the      *)
(* identity cache is empty, no call is running.                            *)

NoCall == [api |-> "none"]

Init ==
    /\ roblosecurity \in {{}} \cup {{t} : t \in Tokens}
    /\ user_information = {}
    /\ pc = [p \in Callers |-> "idle"]
    /\ call = [p \in Callers |-> NoCall]
    /\ sent = [p \in Callers |-> <<>>]
    /\ reply = [p \in Callers |-> {}]
    /\ decoded = [p \in Callers |-> {}]
    /\ result = [p \in Callers |-> {}]
    /\ wrote = [p \in Callers |-> {}]
    /\ last_write = {}

The(S) == CHOOSE x \in S : TRUE

(* The call hands `request` to the transport and suspends at `.send().await`. *)
Send(p, c, request) ==
    /\ pc' = [pc EXCEPT ![p] = "awaiting"]
    /\ call' = [call EXCEPT ![p] = c]
    /\ sent' = [sent EXCEPT ![p] = Append(sent[p], request)]
    /\ UNCHANGED <<roblosecurity, user_information, reply, decoded, result, wrote, last_write>>

(* The call returns `r` to its caller. *)
Return(p, c, r) ==
    /\ pc' = [pc EXCEPT ![p] = "returned"]
    /\ call' = [call EXCEPT ![p] = c]
    /\ result' = [result EXCEPT ![p] = {r}]
    /\ UNCHANGED <<roblosecurity, user_information, sent, reply, decoded, wrote, last_write>>

(* `.send().await` completes: the transport fails or the service answers. *)
Respond(p) ==
    /\ pc[p] = "awaiting"
    /\ \E request_result \in Replies(Bodies(call[p].api)) :
          reply' = [reply EXCEPT ![p] = {request_result}]
    /\ pc' = [pc EXCEPT ![p] = "responded"]
    /\ UNCHANGED <<roblosecurity, user_information, call, sent, decoded, result, wrote, last_write>>

(* The same, over the whole range of user-search and presence bodies. *)
RespondWire(p) ==
    /\ pc[p] = "awaiting"
    /\ \E request_result \in Replies(BodiesWire(call[p].api)) :
          reply' = [reply EXCEPT ![p] = {request_result}]
    /\ pc' = [pc EXCEPT ![p] = "responded"]
    /\ UNCHANGED <<roblosecurity, user_information, call, sent, decoded, result, wrote, last_write>>

(* The caller has taken the returned value and may call again. *)
Finish(p) ==
    /\ pc[p] = "returned"
    /\ pc' = [pc EXCEPT ![p] = "idle"]
    /\ call' = [call EXCEPT ![p] = NoCall]
    /\ sent' = [sent EXCEPT ![p] = <<>>]
    /\ reply' = [reply EXCEPT ![p] = {}]
    /\ decoded' = [decoded EXCEPT ![p] = {}]
    /\ result' = [result EXCEPT ![p] = {}]
    /\ wrote' = [wrote EXCEPT ![p] = {}]
    /\ UNCHANGED <<roblosecurity, user_information, last_write>>

----------------------------------------------------------------------------
(* friends/mod.rs *)

friends_list_request(user_id) ==
    [RequestBuilder("GET", FRIENDS_LIST) EXCEPT !.user_id = {user_id}]

friends_list(p, user_id) ==
    /\ pc[p] = "idle"
    /\ Send(p, [api |-> "friends_list", user_id |-> user_id], friends_list_request(user_id))

(* friends_list decoding whatever response arrived, without validating it. *)
friends_list_result_unvalidated(request_result) ==
    IF request_result.kind = "error" THEN Err(NetworkFailure)
    ELSE LET raw == parse_to_raw("FriendsListResponse", request_result)
         IN IF ~raw.ok THEN raw ELSE Ok(raw.value.data)

friends_list_result(request_result) ==
    LET response == validate_request_result(request_result)
    IN IF ~response.ok THEN response
       ELSE LET raw == parse_to_raw("FriendsListResponse", response.value)
            IN IF ~raw.ok THEN raw ELSE Ok(raw.value.data)

friends_list_resume(p) ==
    /\ pc[p] = "responded"
    /\ call[p].api = "friends_list"
    /\ Return(p, call[p], friends_list_result(The(reply[p])))

friend_requests_request(cookie, cursor) ==
    [RequestBuilder("GET", FRIEND_REQUESTS) EXCEPT
        !.limit = {FRIEND_REQUESTS_LIMIT}, !.cookie = {cookie}]

(* friend_requests with the cookie made optional: `unwrap_or` in place of `?`. *)
friend_requests_cookie_optional(p, cursor) ==
    /\ pc[p] = "idle"
    /\ Send(p, [api |-> "friend_requests", cursor |-> cursor],
            [RequestBuilder("GET", FRIEND_REQUESTS) EXCEPT
                !.limit = {FRIEND_REQUESTS_LIMIT},
                !.cookie = {unwrap_or(cookie_string, EmptyHeaderValue)}])

friend_requests(p, cursor) ==
    /\ pc[p] = "idle"
    /\ LET c == [api |-> "friend_requests", cursor |-> cursor]
           cookie == cookie_string
       IN IF ~cookie.ok THEN Return(p, c, cookie)
          ELSE Send(p, c, friend_requests_request(cookie.value, cursor))

(* friend_requests with `unwrap_or_default()` on the decode: a body that   *)
(* does not decode yields an empty page.                                   *)
friend_requests_result_decode_or_default(request_result) ==
    LET response == validate_request_result(request_result)
    IN IF ~response.ok THEN response
       ELSE LET raw == parse_to_raw("FriendRequestsResponse", response.value)
            IN IF ~raw.ok THEN Ok(<<<<>>, {}>>)
               ELSE Ok(<<raw.value.data, raw.value.next_page_cursor>>)

friend_requests_result(request_result) ==
    LET response == validate_request_result(request_result)
    IN IF ~response.ok THEN response
       ELSE LET raw == parse_to_raw("FriendRequestsResponse", response.value)
            IN IF ~raw.ok THEN raw ELSE Ok(<<raw.value.data, raw.value.next_page_cursor>>)

friend_requests_resume(p) ==
    /\ pc[p] = "responded"
    /\ call[p].api = "friend_requests"
    /\ Return(p, call[p], friend_requests_result(The(reply[p])))

pending_friend_requests_request(cookie) ==
    [RequestBuilder("GET", PENDING_FRIEND_REQUESTS) EXCEPT !.cookie = {cookie}]

pending_friend_requests(p) ==
    /\ pc[p] = "idle"
    /\ LET c == [api |-> "pending_friend_requests"]
           cookie == cookie_string
       IN IF ~cookie.ok THEN Return(p, c, cookie)
          ELSE Send(p, c, pending_friend_requests_request(cookie.value))

pending_friend_requests_result(request_result) ==
    LET response == validate_request_result(request_result)
    IN IF ~response.ok THEN response
       ELSE LET raw == parse_to_raw("PendingFriendRequestsResponse", response.value)
            IN IF ~raw.ok THEN raw ELSE Ok(raw.value.count)

pending_friend_requests_resume(p) ==
    /\ pc[p] = "responded"
    /\ call[p].api = "pending_friend_requests"
    /\ Return(p, call[p], pending_friend_requests_result(The(reply[p])))

----------------------------------------------------------------------------
(* users/mod.rs *)

(* Stores the triple in the identity cache, as one write. *)
set_user_information(p, info) ==
    /\ user_information' = {info}
    /\ wrote' = [wrote EXCEPT ![p] = {info}]
    /\ last_write' = {[by |-> p, value |-> info]}

user_information_internal_request(cookie) ==
    [RequestBuilder("GET", AUTHENTICATED_USER_DETAILS_API) EXCEPT !.cookie = {cookie}]

user_information_internal(p) ==
    /\ pc[p] = "idle"
    /\ LET c == [api |-> "user_information_internal"]
           cookie == cookie_string
       IN IF ~cookie.ok THEN Return(p, c, cookie)
          ELSE Send(p, c, user_information_internal_request(cookie.value))

user_information_internal_parse(request_result) ==
    LET response == validate_request_result(request_result)
    IN IF ~response.ok THEN response
       ELSE parse_to_raw("ClientUserInformation", response.value)

(* The fetch with `unwrap_or_default()` in place of `?`: a failure of      *)
(* validation or decoding yields the default triple.                       *)
user_information_internal_resume_or_default(p) ==
    /\ pc[p] = "responded"
    /\ call[p].api = "user_information_internal"
    /\ LET parsed == user_information_internal_parse(The(reply[p]))
       IN decoded' = [decoded EXCEPT ![p] =
                         {unwrap_or(parsed, DefaultClientUserInformation)}]
    /\ pc' = [pc EXCEPT ![p] = "decoded"]
    /\ UNCHANGED <<roblosecurity, user_information, call, sent, reply, result,
                   wrote, last_write>>

(* Lines 90-91: validation and decoding; `?` returns the first failure. *)
user_information_internal_resume(p) ==
    /\ pc[p] = "responded"
    /\ call[p].api = "user_information_internal"
    /\ LET parsed == user_information_internal_parse(The(reply[p]))
       IN IF ~parsed.ok THEN Return(p, call[p], parsed)
          ELSE /\ decoded' = [decoded EXCEPT ![p] = {parsed.value}]
               /\ pc' = [pc EXCEPT ![p] = "decoded"]
               /\ UNCHANGED <<roblosecurity, user_information, call, sent, reply, result,
                              wrote, last_write>>

(* The fetch without its cache write. *)
user_information_internal_cache_skipped(p) ==
    /\ pc[p] = "decoded"
    /\ pc' = [pc EXCEPT ![p] = "cached"]
    /\ UNCHANGED <<roblosecurity, user_information, call, sent, reply, decoded, result,
                   wrote, last_write>>

(* The cache write torn: only the username of the new triple reaches the cache. *)
user_information_internal_cache_torn(p) ==
    /\ pc[p] = "decoded"
    /\ LET info == The(decoded[p])
           old == IF user_information = {} THEN DefaultClientUserInformation
                  ELSE The(user_information)
       IN /\ user_information' = {[old EXCEPT !.username = info.username]}
          /\ wrote' = [wrote EXCEPT ![p] = {info}]
          /\ last_write' = {[by |-> p, value |-> info]}
    /\ pc' = [pc EXCEPT ![p] = "cached"]
    /\ UNCHANGED <<roblosecurity, call, sent, reply, decoded, result>>

(* Line 94: the cache write. *)
user_information_internal_cache(p) ==
    /\ pc[p] = "decoded"
    /\ set_user_information(p, The(decoded[p]))
    /\ pc' = [pc EXCEPT ![p] = "cached"]
    /\ UNCHANGED <<roblosecurity, call, sent, reply, decoded, result>>

(* Line 96: Ok(user_information). *)
user_information_internal_return(p) ==
    /\ pc[p] = "cached"
    /\ Return(p, call[p], Ok(The(decoded[p])))

user_search_request(keyword, cookie_string_) ==
    [RequestBuilder("GET", USERS_SEARCH_API) EXCEPT
        !.keyword = {keyword}, !.cookie = {cookie_string_}]

user_search(p, keyword) ==
    /\ pc[p] = "idle"
    /\ Send(p, [api |-> "user_search", keyword |-> keyword],
            user_search_request(keyword, unwrap_or(cookie_string, EmptyHeaderValue)))

User(user) ==
    [user_id |-> user.id, username |-> user.name, display_name |-> user.display_name]

user_search_result(request_result) ==
    LET response == validate_request_result(request_result)
    IN IF ~response.ok THEN response
       ELSE LET raw == parse_to_raw("UserSearchResponse", response.value)
            IN IF ~raw.ok THEN raw ELSE Ok([i \in 1..Len(raw.value.data) |-> User(raw.value.data[i])])

(* user_search refreshing the identity cache from the first user found. *)
user_search_resume_refreshing(p) ==
    /\ pc[p] = "responded"
    /\ call[p].api = "user_search"
    /\ LET r == user_search_result(The(reply[p]))
       IN /\ pc' = [pc EXCEPT ![p] = "returned"]
          /\ result' = [result EXCEPT ![p] = {r}]
          /\ user_information' = IF r.ok /\ Len(r.value) > 0 THEN {r.value[1]}
                                 ELSE user_information
    /\ UNCHANGED <<roblosecurity, call, sent, reply, decoded, wrote, last_write>>

user_search_resume(p) ==
    /\ pc[p] = "responded"
    /\ call[p].api = "user_search"
    /\ Return(p, call[p], user_search_result(The(reply[p])))

user_presence_request(user_ids, cookie_string_) ==
    [RequestBuilder("POST", PRESENCE_USERS_API) EXCEPT
        !.cookie = {cookie_string_}, !.json = {[userIds |-> user_ids]}]

user_presence(p, user_ids) ==
    /\ pc[p] = "idle"
    /\ Send(p, [api |-> "user_presence", user_ids |-> user_ids],
            user_presence_request(user_ids, unwrap_or(cookie_string, EmptyHeaderValue)))

user_presence_result(request_result) ==
    LET response == validate_request_result(request_result)
    IN IF ~response.ok THEN response
       ELSE parse_to_raw("UserPresenceResponse", response.value)

(* user_presence sending its request again after a failure. *)
user_presence_resume_retry(p) ==
    /\ pc[p] = "responded"
    /\ call[p].api = "user_presence"
    /\ IF user_presence_result(The(reply[p])).ok
       THEN Return(p, call[p], user_presence_result(The(reply[p])))
       ELSE Send(p, call[p], sent[p][1])

user_presence_resume(p) ==
    /\ pc[p] = "responded"
    /\ call[p].api = "user_presence"
    /\ Return(p, call[p], user_presence_result(The(reply[p])))

user_details_request(user_id) ==
    [RequestBuilder("GET", USER_DETAILS_API) EXCEPT !.user_id = {user_id}]

user_details(p, user_id) ==
    /\ pc[p] = "idle"
    /\ Send(p, [api |-> "user_details", user_id |-> user_id], user_details_request(user_id))

user_details_result(request_result) ==
    LET response == validate_request_result(request_result)
    IN IF ~response.ok THEN response
       ELSE parse_to_raw("UserDetails", response.value)

user_details_resume(p) ==
    /\ pc[p] = "responded"
    /\ call[p].api = "user_details"
    /\ Return(p, call[p], user_details_result(The(reply[p])))

username_user_details_request(usernames, exclude_banned_users) ==
    [RequestBuilder("POST", USER_FROM_USERNAME_API) EXCEPT
        !.json = {[usernames |-> usernames, excludeBannedUsers |-> exclude_banned_users]}]

username_user_details(p, usernames, exclude_banned_users) ==
    /\ pc[p] = "idle"
    /\ Send(p, [api |-> "username_user_details", usernames |-> usernames,
                exclude_banned_users |-> exclude_banned_users],
            username_user_details_request(usernames, exclude_banned_users))

UsernameUserDetails(user) ==
    [requested_username |-> user.requested_username, username |-> user.name,
     display_name |-> user.display_name, id |-> user.id,
     has_verified_badge |-> user.has_verified_badge]

username_user_details_result(request_result) ==
    LET response == validate_request_result(request_result)
    IN IF ~response.ok THEN response
       ELSE LET raw == parse_to_raw("UsernameUserDetailsResponse", response.value)
            IN IF ~raw.ok THEN raw ELSE Ok([i \in 1..Len(raw.value.data) |-> UsernameUserDetails(raw.value.data[i])])

username_user_details_resume(p) ==
    /\ pc[p] = "responded"
    /\ call[p].api = "username_user_details"
    /\ Return(p, call[p], username_user_details_result(The(reply[p])))

----------------------------------------------------------------------------
(* Specifications. *)

(* Callers share the session.  Every caller may run the identity fetch,    *)
(* the one call that writes shared state; the other endpoints touch        *)
(* nothing but the call's own locals, so one caller issuing them next to   *)
(* the concurrent identity fetches covers their interleavings.             *)
Next ==
    \/ friends_list(1, The(UserIds))
    \/ \E cursor \in {{}} \cup {{c} : c \in Cursors} : friend_requests(1, cursor)
    \/ pending_friend_requests(1)
    \/ user_search(1, The(Keywords))
    \/ user_presence(1, <<The(UserIds)>>)
    \/ user_details(1, The(UserIds))
    \/ username_user_details(1, <<The(Names)>>, TRUE)
    \/ \E p \in Callers :
        \/ user_information_internal(p)
        \/ Respond(p)
        \/ friends_list_resume(p)
        \/ friend_requests_resume(p)
        \/ pending_friend_requests_resume(p)
        \/ user_information_internal_resume(p)
        \/ user_information_internal_cache(p)
        \/ user_information_internal_return(p)
        \/ user_search_resume(p)
        \/ user_presence_resume(p)
        \/ user_details_resume(p)
        \/ username_user_details_resume(p)
        \/ Finish(p)

Spec == Init /\ [][Next]_vars

(* One caller searches users and fetches presences; the service answers    *)
(* with any body of the wire range.                                        *)
NextWire ==
    \/ \E keyword \in Keywords : user_search(1, keyword)
    \/ \E user_ids \in SeqsUpTo(UserIds, 2) : user_presence(1, user_ids)
    \/ RespondWire(1)
    \/ user_search_resume(1)
    \/ user_presence_resume(1)
    \/ Finish(1)

SpecWire == Init /\ [][NextWire]_vars

----------------------------------------------------------------------------
(* Properties. *)

Returned(p) == pc[p] = "returned"
TheResult(p) == The(result[p])
TheReply(p) == The(reply[p])
Replied(p) == reply[p] # {}
RepliedStatus(p, status) ==
    Replied(p) /\ TheReply(p).kind = "response" /\ TheReply(p).status = status
Replied2xx(p) ==
    Replied(p) /\ TheReply(p).kind = "response" /\ TheReply(p).status \in 200..299

(* C1: when the session holds no token, a call of friend_requests,         *)
(* pending_friend_requests or user_information_internal has returned the   *)
(* missing-authentication error and has handed no request to the           *)
(* transport.                                                              *)
C1_MissingTokenNoRequest ==
    \A p \in Callers :
        (call[p].api \in RequiresAuth /\ roblosecurity = {}) =>
            /\ Returned(p)
            /\ result[p] = {Err(MissingAuthentication)}
            /\ sent[p] = <<>>

C1_Witness ==
    /\ roblosecurity = {}
    /\ \E p, q \in Callers :
        /\ call[p].api = "friend_requests" /\ Returned(p)
        /\ call[q].api = "user_information_internal" /\ Returned(q)

(* The step in which user_information_internal returns Ok to caller p. *)
ReturnsIdentity(p) ==
    /\ pc[p] = "cached"
    /\ pc'[p] = "returned"
    /\ call'[p].api = "user_information_internal"
    /\ The(result'[p]).ok

(* C2 as stated: at the moment user_information_internal returns Ok(V),    *)
(* the identity cache holds exactly V.                                     *)
C2_CacheHoldsReturnedValue ==
    [][\A p \in Callers :
          ReturnsIdentity(p) => user_information' = {The(result'[p]).value}]_vars

(* C2 amended: at the moment user_information_internal returns Ok(V), this *)
(* call has already written exactly V to the identity cache, and the cache *)
(* holds V unless another caller's fetch has written it since, in which    *)
(* case it holds that later write.                                         *)
C2_CacheWrittenBeforeReturn ==
    [][\A p \in Callers :
          ReturnsIdentity(p) =>
              /\ wrote[p] = {The(result'[p]).value}
              /\ last_write' # {}
              /\ user_information' = {The(last_write').value}
              /\ The(last_write').by = p =>
                    user_information' = {The(result'[p]).value}]_vars

C2_Witness ==
    \E p \in Callers :
        /\ call[p].api = "user_information_internal" /\ Returned(p) /\ TheResult(p).ok
        /\ The(last_write).by = p
        /\ user_information = {TheResult(p).value}

(* C3: under any interleaving of concurrent identity fetches the identity  *)
(* cache is empty as long as no fetch has written it, and afterwards holds *)
(* one complete triple, the one handed over by the latest writer: never a  *)
(* mix of two writes, never the default triple.                            *)
C3_CacheEmptyOrLastCompleteWrite ==
    /\ last_write = {} => user_information = {}
    /\ last_write # {} =>
        /\ user_information = {The(last_write).value}
        /\ The(last_write).value \in Identities
        /\ The(last_write).value # DefaultClientUserInformation

C3_Witness ==
    \E p, q \in Callers :
        /\ p # q
        /\ Returned(p) /\ Returned(q)
        /\ wrote[p] # {} /\ wrote[q] # {} /\ wrote[p] # wrote[q]
        /\ The(last_write).by = q

(* C4: a call hands at most one request to the transport; after a network  *)
(* failure, a non-2xx status or an undecodable body the call has returned  *)
(* that failure and has sent exactly one request.                          *)
C4_AtMostOneRequest ==
    \A p \in Callers :
        /\ Len(sent[p]) <= 1
        /\ (Returned(p) /\ Replied(p)) =>
            /\ Len(sent[p]) = 1
            /\ TheReply(p).kind = "error" => result[p] = {Err(NetworkFailure)}
            /\ (TheReply(p).kind = "response" /\ ~Replied2xx(p)) =>
                    (~TheResult(p).ok /\ TheResult(p).err
                        \in {AuthenticationRejected, RateLimited, UnexpectedStatus})
            /\ (Replied2xx(p) /\ TheReply(p).body.malformed) =>
                    result[p] = {Err(DecodeFailure)}

C4_Witness ==
    \E p \in Callers :
        /\ call[p].api = "user_presence" /\ Returned(p)
        /\ Replied(p) /\ TheReply(p).kind = "error"
        /\ Len(sent[p]) = 1

(* C5: the request friend_requests sends carries the cursor the caller     *)
(* supplied (none when none was supplied) and asks for a page of 10.       *)
C5_CursorPassedThrough ==
    \A p \in Callers :
        (call[p].api = "friend_requests" /\ Len(sent[p]) = 1) =>
            /\ sent[p][1].cursor = call[p].cursor
            /\ sent[p][1].limit = {FRIEND_REQUESTS_LIMIT}

(* C6: a call of friends_list, user_search or user_presence never returns  *)
(* the missing-authentication error and always sends its request; the      *)
(* request carries the session's token as its cookie when there is one     *)
(* and no token when there is none.                                        *)
C6_OptionalAuthAttachesToken ==
    \A p \in Callers :
        call[p].api \in OptionalAuth =>
            /\ Len(sent[p]) = 1
            /\ result[p] # {Err(MissingAuthentication)}
            /\ roblosecurity # {} => sent[p][1].cookie = roblosecurity
            /\ roblosecurity = {} => sent[p][1].cookie \cap Tokens = {}

(* C7: a call answered with status 429 returns the rate-limited error.     *)
C7_RateLimited ==
    \A p \in Callers :
        (Returned(p) /\ RepliedStatus(p, 429)) => result[p] = {Err(RateLimited)}

C7_Witness ==
    \E p \in Callers :
        call[p].api = "friends_list" /\ Returned(p) /\ RepliedStatus(p, 429)

(* C8: a call answered with status 401 returns the authentication-rejected *)
(* error, and user_information_internal has then not written the identity *)
(* cache.                                                                  *)
C8_AuthenticationRejected ==
    \A p \in Callers :
        RepliedStatus(p, 401) =>
            /\ wrote[p] = {}
            /\ Returned(p) => result[p] = {Err(AuthenticationRejected)}

C8_Witness ==
    \E p \in Callers :
        call[p].api = "user_information_internal" /\ Returned(p) /\ RepliedStatus(p, 401)

(* A user-search body of the documented shape { data: [...] }: an object   *)
(* whose entries carry all their fields, whatever its cursor fields are.   *)
DocumentedSearchShape(body) ==
    /\ ~body.malformed
    /\ \A i \in 1..Len(body.data) :
          AllHaveValue(body.data[i],
                       {"id", "name", "displayName", "hasVerifiedBadge", "previousUsernames"})

(* One User per wire entry, in wire order, under the documented renames. *)
WireUsers(body) ==
    [i \in 1..Len(body.data) |->
        [user_id |-> body.data[i].id[2],
         username |-> body.data[i].name[2],
         display_name |-> body.data[i].displayName[2]]]

(* C9: user_search answered 2xx with a body of the documented shape,       *)
(* whatever cursor fields accompany it, returns Ok with one User per wire  *)
(* entry, in wire order, with the wire id, name and displayName.           *)
C9_SearchDocumentedShapeSucceeds ==
    \A p \in Callers :
        (call[p].api = "user_search" /\ Returned(p) /\ Replied2xx(p)
            /\ DocumentedSearchShape(TheReply(p).body)) =>
            result[p] = {Ok(WireUsers(TheReply(p).body))}

(* The optional fields of a presence entry: wire name, returned name. *)
PresenceOptionalFields ==
    {<<"lastLocation", "last_location">>, <<"placeId", "place_id">>,
     <<"rootPlaceId", "root_place_id">>, <<"gameId", "game_id">>,
     <<"universeId", "universe_id">>, <<"invisibleModExpiry", "invisible_mod_expiry">>}

PresenceRequiredFields == {"userPresenceType", "lastOnline"}

(* C10: user_presence answered 2xx with a presence object whose entries    *)
(* carry their required fields returns Ok whatever optional fields are     *)
(* absent or null; in every returned entry an optional field that is       *)
(* absent or null on the wire is None, and one that is present is Some of  *)
(* the wire value.                                                         *)
C10_PresenceOptionalFields ==
    \A p \in Callers :
        (call[p].api = "user_presence" /\ Returned(p) /\ Replied2xx(p)
            /\ ~TheReply(p).body.malformed) =>
            LET wire == TheReply(p).body.userPresences
            IN (\A i \in 1..Len(wire) : AllHaveValue(wire[i], PresenceRequiredFields)) =>
                /\ TheResult(p).ok
                /\ Len(TheResult(p).value.user_presences) = Len(wire)
                /\ \A i \in 1..Len(wire) : \A f \in PresenceOptionalFields :
                      LET w == wire[i][f[1]]
                          r == TheResult(p).value.user_presences[i][f[2]]
                      IN /\ w \in {Absent, Null} => r = {}
                         /\ w \notin {Absent, Null} => r = {w[2]}

C10_Witness ==
    \E p \in Callers :
        /\ call[p].api = "user_presence" /\ Returned(p) /\ Replied2xx(p)
        /\ TheReply(p).body = PresenceBody(<<InGamePresenceEntry, OfflinePresenceEntry>>)
        /\ TheResult(p).ok
        /\ TheResult(p).value.user_presences[2].place_id = {}
        /\ TheResult(p).value.user_presences[1].place_id = {7}

(* The schema each endpoint decodes its response into. *)
SchemaOf(api) ==
    CASE api = "friends_list" -> "FriendsListResponse"
      [] api = "friend_requests" -> "FriendRequestsResponse"
      [] api = "pending_friend_requests" -> "PendingFriendRequestsResponse"
      [] api = "user_information_internal" -> "ClientUserInformation"
      [] api = "user_search" -> "UserSearchResponse"
      [] api = "user_presence" -> "UserPresenceResponse"
      [] api = "user_details" -> "UserDetails"
      [] api = "username_user_details" -> "UsernameUserDetailsResponse"

(* The complete result each endpoint builds from its decoded response. *)
MappedResult(api, raw) ==
    CASE api = "friends_list" -> raw.data
      [] api = "friend_requests" -> <<raw.data, raw.next_page_cursor>>
      [] api = "pending_friend_requests" -> raw.count
      [] api = "user_search" ->
            [i \in 1..Len(raw.data) |->
                [user_id |-> raw.data[i].id, username |-> raw.data[i].name,
                 display_name |-> raw.data[i].display_name]]
      [] api = "username_user_details" ->
            [i \in 1..Len(raw.data) |->
                [requested_username |-> raw.data[i].requested_username,
                 username |-> raw.data[i].name,
                 display_name |-> raw.data[i].display_name,
                 id |-> raw.data[i].id,
                 has_verified_badge |-> raw.data[i].has_verified_badge]]
      [] OTHER -> raw

(* The error of the first step that failed, or the complete mapped result  *)
(* when token lookup, transport, validation and decoding all passed.       *)
OutcomeOf(p) ==
    IF ~Replied(p) THEN Err(MissingAuthentication)
    ELSE IF TheReply(p).kind = "error" THEN Err(NetworkFailure)
    ELSE IF ~Replied2xx(p) THEN validate_request_result(TheReply(p))
    ELSE LET raw == parse_to_raw(SchemaOf(call[p].api), TheReply(p))
         IN IF ~raw.ok THEN Err(DecodeFailure)
            ELSE Ok(MappedResult(call[p].api, raw.value))

(* C11: a call that has returned has returned exactly the error of the     *)
(* first step that failed (token lookup, transport, status validation,     *)
(* decode) or, when none failed, the complete mapped result; a response    *)
(* that fails validation yields the validation error, never a decode       *)
(* error or a result, and a response that fails decoding yields no result. *)
C11_FirstFailureOrCompleteResult ==
    \A p \in Callers :
        Returned(p) =>
            /\ result[p] = {OutcomeOf(p)}
            /\ ~Replied(p) =>
                  (sent[p] = <<>> /\ roblosecurity = {} /\ call[p].api \in RequiresAuth)
            /\ (Replied(p) /\ ~Replied2xx(p)) =>
                  (~TheResult(p).ok /\ TheResult(p).err # DecodeFailure)
            /\ TheResult(p).ok =>
                  (Replied2xx(p) /\ parse_to_raw(SchemaOf(call[p].api), TheReply(p)).ok)

C11_Witness ==
    \E p, q \in Callers :
        /\ call[p].api = "friend_requests" /\ Returned(p) /\ Replied2xx(p)
        /\ result[p] = {Err(DecodeFailure)}
        /\ call[q].api = "user_information_internal" /\ Returned(q) /\ TheResult(q).ok

(* The step of user_information_internal that follows a passed token       *)
(* lookup, validation and decoding: caller p stores the decoded triple.    *)
IdentityCacheStep(p) ==
    /\ call[p].api = "user_information_internal"
    /\ pc[p] = "decoded"
    /\ pc'[p] = "cached"
    /\ roblosecurity # {}
    /\ Len(sent[p]) = 1
    /\ Replied2xx(p)
    /\ parse_to_raw("ClientUserInformation", TheReply(p)).ok
    /\ user_information' = {parse_to_raw("ClientUserInformation", TheReply(p)).value}

(* C12: across any sequence of calls on the session, a step changes the    *)
(* identity cache only if it is the storing step of an identity fetch that *)
(* has passed token lookup, validation and decoding; the steps of the      *)
(* seven other endpoints and of an identity fetch that fails leave the     *)
(* cache as it was.                                                        *)
C12_CacheChangesOnlyInIdentityFetch ==
    [][(user_information' # user_information \/ last_write' # last_write) =>
            \E p \in Callers : IdentityCacheStep(p)]_vars

C12_Witness ==
    /\ user_information # {}
    /\ \E p, q \in Callers :
        /\ call[p].api = "user_search" /\ Returned(p) /\ TheResult(p).ok
        /\ Len(TheResult(p).value) > 0
        /\ call[q].api = "user_information_internal" /\ Returned(q) /\ ~TheResult(q).ok
        /\ last_write # {} /\ The(last_write).by = q

====
